---- MODULE Spec2Model ----
(***************************************************************************)
(* embedded_font_generator: the pipeline of generate_monochromatic          *)
(* (src/src/lib.rs) over the pixel iterators of src/src/imagedecode.rs.     *)
(*                                                                          *)
(* The PNG decoder (zune_png) is outside the repository: the model starts   *)
(* from what it hands over (colour-space tag, width, height, sample buffer  *)
(* of one precision).  Header/geometry/data decode failures, which return   *)
(* PngDecodingError before any pixel is produced, are not modelled.         *)
(*                                                                          *)
(* usize values stay far below 2^64 inside the bounds used here, so the     *)
(* wrapping/saturating usize operations are modelled by their exact result; *)
(* the u8 accumulator of the bit packer keeps its 8-bit width.              *)
(***************************************************************************)
EXTENDS Integers, Sequences, FiniteSets, TLC

VARIABLES
    font_mode,    \* FontMode argument / RgbaColorIter.font_mode
    bit_flow,     \* BitFlow argument
    cs_tag,       \* colour space reported by the decoder
    depth,        \* precision of the decoded buffer: "U8", "U16", "F32"
    width,        \* RgbaColorIter.width
    height,       \* RgbaColorIter.height
    samples,      \* RgbaColorIter.inner: the decoded sample buffer
    sink,         \* the caller's writer `out`: what kind of sink it is
    color_space,  \* RgbaColorIter.color_space
    char_size,    \* RgbaColorIter.char_size
    idx,          \* RgbaColorIter.idx
    item,         \* what the last RgbaColorIter::next returned
    req,          \* the logical index (self.idx) the last next() started from
    n_phys,       \* the physical index n the last next() computed, or NoIndex
    read_at,      \* the n the last next() passed to get_nth_rgba, or NoIndex
    calls,        \* number of RgbaColorIter::next calls so far
    visited,      \* the physical index n of every element next() produced, in order
    is_on,        \* what the last MonochromaticColorIter::next yielded (pix)
    cur_byte,     \* generate_monochromatic: cur_byte
    i,            \* generate_monochromatic: i
    out,          \* bytes the sink has accepted, in order
    writes,       \* number of out.write calls made so far
    bits,         \* the booleans the packing loop has consumed, in order
    pc,           \* "start", "loop", "scan", "done"
    result        \* what generate_monochromatic returned: Ok, an error, or nothing yet

inputs == <<font_mode, bit_flow, cs_tag, depth, width, height, samples, sink>>
iter   == <<color_space, char_size, idx>>
obs    == <<item, req, n_phys, read_at, calls, visited, is_on>>
packer == <<cur_byte, i, out, writes, bits>>
vars   == <<inputs, iter, obs, packer, pc, result>>

----------------------------------------------------------------------------
(* Bounds of the model *)

MaxWidth == 3
MaxHeight == 9
MaxTrunc == 1
MaxSliceCap == 1
MaxFailAt == 2
MaxExtraCalls == 2
MaxCalcWidth == 10
MaxCalcHeight == 24

----------------------------------------------------------------------------
(* Program constants *)

U8_MAX == 255
U8_HALF == U8_MAX \div 2
BLOCK_ROWS == 8
I_START == 7
U16_DIV == 256
F32_SCALE == 255
NoIndex == -1

----------------------------------------------------------------------------
(* Colour spaces *)

SupportedTags == {"RGB", "RGBA", "Luma", "LumaA", "BGR", "BGRA"}
UnsupportedTags == {"YCbCr", "Unknown"}
ColorTags == SupportedTags \cup UnsupportedTags

SupportedColorSpaces == {"Rgb", "Rgba", "Luma", "LumaA", "Bgr", "Bgra"}

\* a colour space that would map every tag: the rejection is lost
SupportedColorSpace_new_lenient(space) ==
    CASE space = "RGB" -> "Rgb"
      [] space = "RGBA" -> "Rgba"
      [] space = "Luma" -> "Luma"
      [] space = "LumaA" -> "LumaA"
      [] space = "BGR" -> "Bgr"
      [] space = "BGRA" -> "Bgra"
      [] OTHER -> "Rgb"

SupportedColorSpace_new(space) ==
    CASE space = "RGB" -> "Rgb"
      [] space = "RGBA" -> "Rgba"
      [] space = "Luma" -> "Luma"
      [] space = "LumaA" -> "LumaA"
      [] space = "BGR" -> "Bgr"
      [] space = "BGRA" -> "Bgra"
      [] OTHER -> "None"

num_components(cs) ==
    CASE cs = "Rgb" -> 3
      [] cs = "Rgba" -> 4
      [] cs = "Luma" -> 1
      [] cs = "LumaA" -> 2
      [] cs = "Bgr" -> 3
      [] cs = "Bgra" -> 4

suppports_alpha(cs) == cs \in {"Rgba", "LumaA", "Bgra"}

\* components per pixel of the buffer the decoder produces for a tag
TagComponents(tag) ==
    CASE tag \in {"RGB", "BGR", "YCbCr"} -> 3
      [] tag \in {"RGBA", "BGRA"} -> 4
      [] tag = "Luma" -> 1
      [] tag = "LumaA" -> 2
      [] OTHER -> 0

----------------------------------------------------------------------------
(* Color Normalizer: sample reduction, fill_bytes, parse_rgba *)

Rgba(r, g, b, a) == [r |-> r, g |-> g, b |-> b, a |-> a]
Rgba_ZERO == Rgba(0, 0, 0, 0)

Some(v) == [some |-> TRUE, rgba |-> v]
None == [some |-> FALSE, rgba |-> Rgba_ZERO]

u16_to_u8(val) == val \div U16_DIV

\* An f32 sample is modelled as the numerator k of the dyadic fraction k/256:
\* f32 represents k/256 and (k/256) * 255 exactly, and `as u8` truncates
\* toward zero and saturates at 0 and 255.
f32_to_u8(k) ==
    IF k < 0 THEN 0
    ELSE IF (k * F32_SCALE) \div 256 > U8_MAX THEN U8_MAX
    ELSE (k * F32_SCALE) \div 256

ToU8(d, val) ==
    CASE d = "U8" -> val
      [] d = "U16" -> u16_to_u8(val)
      [] d = "F32" -> f32_to_u8(val)

\* fill_bytes over v.iter().skip(byte_offset): whether num components could
\* be pulled, and the 4-byte array (1-based here) they were stored into
bytes_filled(buf, byte_offset, nc) == byte_offset + nc <= Len(buf)

fill_bytes(buf, d, byte_offset, nc) ==
    [k \in 1..4 |-> IF k <= nc /\ byte_offset + k <= Len(buf)
                    THEN ToU8(d, buf[byte_offset + k])
                    ELSE 0]

\* parse_rgba with the alpha of the alpha-less spaces taken from bytes[3]
parse_rgba_raw_alpha(bytes, cs) ==
    CASE cs = "Rgb" -> Rgba(bytes[1], bytes[2], bytes[3], bytes[4])
      [] cs = "Rgba" -> Rgba(bytes[1], bytes[2], bytes[3], bytes[4])
      [] cs = "Luma" -> Rgba(bytes[1], bytes[1], bytes[1], bytes[2])
      [] cs = "LumaA" -> Rgba(bytes[1], bytes[1], bytes[1], bytes[2])
      [] cs = "Bgr" -> Rgba(bytes[3], bytes[2], bytes[1], bytes[4])
      [] cs = "Bgra" -> Rgba(bytes[3], bytes[2], bytes[1], bytes[4])

parse_rgba(bytes, cs) ==
    CASE cs = "Rgb" -> Rgba(bytes[1], bytes[2], bytes[3], U8_MAX)
      [] cs = "Rgba" -> Rgba(bytes[1], bytes[2], bytes[3], bytes[4])
      [] cs = "Luma" -> Rgba(bytes[1], bytes[1], bytes[1], U8_MAX)
      [] cs = "LumaA" -> Rgba(bytes[1], bytes[1], bytes[1], bytes[2])
      [] cs = "Bgr" -> Rgba(bytes[3], bytes[2], bytes[1], U8_MAX)
      [] cs = "Bgra" -> Rgba(bytes[3], bytes[2], bytes[1], bytes[4])

get_nth_rgba(buf, d, n, cs) ==
    LET byte_offset == n * num_components(cs)
    IN  IF bytes_filled(buf, byte_offset, num_components(cs))
        THEN Some(parse_rgba(fill_bytes(buf, d, byte_offset, num_components(cs)), cs))
        ELSE None

----------------------------------------------------------------------------
(* Pixel Scanner: calc_char_size and the index mapping of RgbaColorIter::next *)

\* the size calculation that pads every height, multiples of 8 included
calc_char_size_always_pad(mode, w, h) ==
    IF mode = "Row" THEN w * h
    ELSE w * ((BLOCK_ROWS - (h % BLOCK_ROWS)) + h)

calc_char_size(mode, w, h) ==
    IF mode = "Row" THEN w * h
    ELSE IF h % BLOCK_ROWS = 0 THEN w * h
    ELSE w * ((BLOCK_ROWS - (h % BLOCK_ROWS)) + h)

\* the mapping with row and column of the block exchanged
PhysIndex_swapped(mode, index, w) ==
    IF mode = "Row" THEN index
    ELSE LET block_px == w * BLOCK_ROWS
         IN  IF block_px = 0 THEN NoIndex
             ELSE LET block_idx == index \div block_px
                      block_start == block_idx * block_px
                      column == (index - block_start) % BLOCK_ROWS
                      row == (index - block_start) \div BLOCK_ROWS
                  IN  block_start + column + row * w

\* the mapping with the row stride of the block taken as 8 instead of width
PhysIndex_row_stride(mode, index, w) ==
    IF mode = "Row" THEN index
    ELSE LET block_px == w * BLOCK_ROWS
         IN  IF block_px = 0 THEN NoIndex
             ELSE LET block_idx == index \div block_px
                      block_start == block_idx * block_px
                      column == (index - block_start) \div BLOCK_ROWS
                      row == (index - block_start) % BLOCK_ROWS
                  IN  block_start + column + row * BLOCK_ROWS

\* lines 121-139: the physical index n of logical index `index`;
\* NoIndex when checked_div fails (width 0)
PhysIndex(mode, index, w) ==
    IF mode = "Row" THEN index
    ELSE LET block_px == w * BLOCK_ROWS
         IN  IF block_px = 0 THEN NoIndex
             ELSE LET block_idx == index \div block_px
                      block_start == block_idx * block_px
                      column == (index - block_start) \div BLOCK_ROWS
                      row == (index - block_start) % BLOCK_ROWS
                  IN  block_start + column + row * w

\* a boundary test that never answers "padding"
IsPadding_never(n, w, h) == FALSE

\* line 143
IsPadding(n, w, h) == n >= w * h

\* RgbaColorIter::next on the iterator's fields.  The test idx == usize::MAX
\* of line 117 is never true of an index below 2^64 - 1 and is left out.
RgbaColorIter_next ==
    /\ calls' = calls + 1
    /\ req' = idx
    /\ IF idx >= char_size
       THEN /\ item' = None
            /\ n_phys' = NoIndex
            /\ read_at' = NoIndex
            /\ idx' = idx
       ELSE LET n == PhysIndex(font_mode, idx, width)
            IN  IF n = NoIndex
                THEN /\ item' = None
                     /\ n_phys' = NoIndex
                     /\ read_at' = NoIndex
                     /\ idx' = idx
                ELSE /\ idx' = idx + 1
                     /\ n_phys' = n
                     /\ IF IsPadding(n, width, height)
                        THEN /\ item' = Some(Rgba_ZERO)
                             /\ read_at' = NoIndex
                        ELSE /\ item' = get_nth_rgba(samples, depth, n, color_space)
                             /\ read_at' = n
    /\ visited' = IF item'.some THEN Append(visited, n_phys') ELSE visited
    /\ UNCHANGED <<color_space, char_size>>

----------------------------------------------------------------------------
(* Thresholder: MonochromaticColorIter::next after the inner next() *)

\* the colour test at 128 instead of U8_HALF
IsOn_128(rgba, cs) ==
    IF suppports_alpha(cs)
    THEN rgba.a > U8_HALF
    ELSE rgba.a > U8_HALF /\ (rgba.r < 128 \/ rgba.g < 128 \/ rgba.b < 128)

IsOn(rgba, cs) ==
    IF suppports_alpha(cs)
    THEN rgba.a > U8_HALF
    ELSE rgba.a > U8_HALF /\ (rgba.r < U8_HALF \/ rgba.g < U8_HALF \/ rgba.b < U8_HALF)

----------------------------------------------------------------------------
(* Bit Packer: the loop body of generate_monochromatic *)

u8_from(pix) == IF pix THEN 1 ELSE 0

\* Ltm packing that ORs the new bit into bit 0, as Mtl does
PackBit_low(flow, cur, pix) ==
    IF flow = "Mtl"
    THEN ((cur * 2) % 256) + u8_from(pix)
    ELSE (cur \div 2) + u8_from(pix)

\* lines 31-40; the OR is an addition because the shift vacates the bit
PackBit(flow, cur, pix) ==
    IF flow = "Mtl"
    THEN ((cur * 2) % 256) + u8_from(pix)
    ELSE (cur \div 2) + u8_from(pix) * 128

\* a counter that runs out one step early
checked_sub_1_early(v) == IF v >= 2 THEN v - 1 ELSE NoIndex

\* i.checked_sub(1): NoIndex stands for None
checked_sub_1(v) == IF v >= 1 THEN v - 1 ELSE NoIndex

----------------------------------------------------------------------------
(* The caller's sink `out: &mut impl Write` *)

\* a growable sink that accepts every byte; a fixed buffer of p bytes, whose
\* write accepts nothing and reports no error once full; a writer whose
\* p-th write call reports an error
SinkKinds ==
    {[kind |-> "Vec", p |-> 0]}
    \cup {[kind |-> "Slice", p |-> c] : c \in 0..MaxSliceCap}
    \cup {[kind |-> "Failing", p |-> m] : m \in 1..MaxFailAt}

\* a sink whose errors are never seen by the caller
WriteResult_ignored(s, nwrites, accepted) ==
    IF s.kind = "Slice" /\ accepted >= s.p THEN "Ok0" ELSE "Ok1"

\* the outcome of out.write(&[cur_byte]) as call number nwrites + 1
WriteResult(s, nwrites, accepted) ==
    CASE s.kind = "Failing" /\ nwrites + 1 = s.p -> "Err"
      [] s.kind = "Slice" /\ accepted >= s.p -> "Ok0"
      [] OTHER -> "Ok1"

----------------------------------------------------------------------------
(* Decoded images *)

FontModes == {"Row", "ByteColumn"}
BitFlows == {"Mtl", "Ltm"}

\* sample patterns, repeated over the buffer, per precision
ImageKinds ==
    { [depth |-> "U8", pat |-> <<0, 255>>],
      [depth |-> "U8", pat |-> <<255, 0, 126, 127, 128>>],
      [depth |-> "U16", pat |-> <<65535, 0, 32511, 32768, 255>>],
      [depth |-> "F32", pat |-> <<0, 256, 128, 127, 300>>] }

MakeBuffer(kind, len) ==
    [o \in 1..len |-> kind.pat[((o - 1) % Len(kind.pat)) + 1]]

BufferLen(tag, w, h, trunc) ==
    IF w * h * TagComponents(tag) >= trunc
    THEN w * h * TagComponents(tag) - trunc
    ELSE 0

----------------------------------------------------------------------------
(* crate::Result<()> of generate_monochromatic *)

NoResult == [kind |-> "none", tag |-> ""]
Ok == [kind |-> "Ok", tag |-> ""]
\* GenerationError::UnsupportedColorspace(tag), GenerationError::OutputWriterError(_)
Err(kind, tag) == [kind |-> kind, tag |-> tag]

----------------------------------------------------------------------------
(* Initial states *)

InitIter ==
    /\ color_space = "None"
    /\ char_size = 0
    /\ idx = 0

InitObs ==
    /\ item = None
    /\ req = NoIndex
    /\ n_phys = NoIndex
    /\ read_at = NoIndex
    /\ calls = 0
    /\ visited = <<>>
    /\ is_on = FALSE

InitPacker ==
    /\ cur_byte = 0
    /\ i = I_START
    /\ out = <<>>
    /\ writes = 0
    /\ bits = <<>>

InitImage ==
    \E kind \in ImageKinds, trunc \in 0..MaxTrunc :
        /\ cs_tag \in ColorTags
        /\ width \in 1..MaxWidth
        /\ height \in 1..MaxHeight
        /\ depth = kind.depth
        /\ samples = MakeBuffer(kind, BufferLen(cs_tag, width, height, trunc))

\* a call of generate_monochromatic(data, font_mode, bit_flow, out)
Init ==
    /\ font_mode \in FontModes
    /\ bit_flow \in BitFlows
    /\ sink \in SinkKinds
    /\ InitImage
    /\ InitIter /\ InitObs /\ InitPacker
    /\ pc = "start"
    /\ result = NoResult

----------------------------------------------------------------------------
(* generate_monochromatic *)

\* RgbaColorIter::new after the decoder has reported cs_tag: the fields of
\* the new iterator, or the rejection of the colour space
RgbaColorIter_new(next_pc) ==
    LET cs == SupportedColorSpace_new(cs_tag)
    IN  IF cs = "None"
        THEN /\ result' = Err("UnsupportedColorspace", cs_tag)
             /\ pc' = "done"
             /\ UNCHANGED iter
        ELSE /\ color_space' = cs
             /\ char_size' = calc_char_size(font_mode, width, height)
             /\ idx' = 0
             /\ pc' = next_pc
             /\ UNCHANGED result

\* lines 24-26
New ==
    /\ pc = "start"
    /\ RgbaColorIter_new("loop")
    /\ cur_byte' = 0
    /\ i' = I_START
    /\ UNCHANGED <<inputs, obs, out, writes, bits>>

\* one pass of `for pix in decoded`: MonochromaticColorIter::next, then the
\* loop body, or the end of the loop and Ok(())
LoopStep ==
    /\ pc = "loop"
    /\ RgbaColorIter_next
    /\ IF ~item'.some
       THEN /\ pc' = "done"
            /\ result' = Ok
            /\ UNCHANGED <<is_on, packer>>
       ELSE LET pix == IsOn(item'.rgba, color_space)
                byte == PackBit(bit_flow, cur_byte, pix)
            IN  /\ is_on' = pix
                /\ bits' = Append(bits, pix)
                /\ IF checked_sub_1(i) # NoIndex
                   THEN /\ i' = checked_sub_1(i)
                        /\ cur_byte' = byte
                        /\ UNCHANGED <<out, writes, pc, result>>
                   ELSE /\ writes' = writes + 1
                        /\ IF WriteResult(sink, writes, Len(out)) = "Err"
                           THEN /\ result' = Err("OutputWriterError", "")
                                /\ pc' = "done"
                                /\ cur_byte' = byte
                                /\ UNCHANGED <<i, out>>
                           ELSE /\ out' = IF WriteResult(sink, writes, Len(out)) = "Ok1"
                                          THEN Append(out, byte)
                                          ELSE out
                                /\ i' = I_START
                                /\ cur_byte' = 0
                                /\ UNCHANGED <<pc, result>>
    /\ UNCHANGED inputs

Next == New \/ LoopStep

Spec == Init /\ [][Next]_vars

----------------------------------------------------------------------------
(* The Scanner on its own: RgbaColorIter driven by repeated next() calls,  *)
(* whatever the previous call returned                                     *)

InitScanner ==
    /\ font_mode \in FontModes
    /\ bit_flow = "Mtl"
    /\ sink = [kind |-> "Vec", p |-> 0]
    /\ InitImage
    /\ InitIter /\ InitObs /\ InitPacker
    /\ pc = "start"
    /\ result = NoResult

ScanNew ==
    /\ pc = "start"
    /\ RgbaColorIter_new("scan")
    /\ UNCHANGED <<inputs, obs, packer>>

ScanNext ==
    /\ pc = "scan"
    /\ calls < char_size + MaxExtraCalls
    /\ RgbaColorIter_next
    /\ UNCHANGED <<inputs, is_on, packer, pc, result>>

NextScanner == ScanNew \/ ScanNext

SpecScanner == InitScanner /\ [][NextScanner]_vars

----------------------------------------------------------------------------
(* calc_char_size as a function of mode, width and height *)

InitCalc ==
    /\ font_mode \in FontModes
    /\ width \in 0..MaxCalcWidth
    /\ height \in 0..MaxCalcHeight
    /\ bit_flow = "Mtl"
    /\ sink = [kind |-> "Vec", p |-> 0]
    /\ cs_tag = "RGB"
    /\ depth = "U8"
    /\ samples = <<>>
    /\ InitIter /\ InitObs /\ InitPacker
    /\ pc = "start"
    /\ result = NoResult

CalcStep ==
    /\ pc = "start"
    /\ char_size' = calc_char_size(font_mode, width, height)
    /\ pc' = "done"
    /\ UNCHANGED <<inputs, color_space, idx, obs, packer, result>>

NextCalc == CalcStep

SpecCalc == InitCalc /\ [][NextCalc]_vars

----------------------------------------------------------------------------
(* The Thresholder as a function of one canonical colour *)

Levels == {0, 126, 127, 128, 255}

InitThresh ==
    /\ item \in {Some(Rgba(r, g, b, a)) : r \in Levels, g \in Levels, b \in Levels, a \in Levels}
    /\ color_space \in SupportedColorSpaces
    /\ char_size = 0
    /\ idx = 0
    /\ req = NoIndex
    /\ n_phys = NoIndex
    /\ read_at = NoIndex
    /\ calls = 0
    /\ visited = <<>>
    /\ is_on = FALSE
    /\ font_mode = "Row"
    /\ width = 1
    /\ height = 1
    /\ bit_flow = "Mtl"
    /\ sink = [kind |-> "Vec", p |-> 0]
    /\ cs_tag = "RGB"
    /\ depth = "U8"
    /\ samples = <<>>
    /\ InitPacker
    /\ pc = "start"
    /\ result = NoResult

ThreshStep ==
    /\ pc = "start"
    /\ is_on' = IsOn(item.rgba, color_space)
    /\ pc' = "done"
    /\ UNCHANGED <<inputs, iter, item, req, n_phys, read_at, calls, visited, packer, result>>

NextThresh == ThreshStep

SpecThresh == InitThresh /\ [][NextThresh]_vars

----------------------------------------------------------------------------
(* Properties *)

BitAt(byte, pos) == (byte \div (2 ^ pos)) % 2

\* the byte whose bit positions hold the j-th group of 8 of bs, first boolean
\* at bit 7 under Mtl and at bit 0 under Ltm
GroupByte(bs, j, flow) ==
    LET b(k) == u8_from(bs[8 * (j - 1) + k + 1])
        w(k) == IF flow = "Mtl" THEN 2 ^ (7 - k) ELSE 2 ^ k
    IN  b(0) * w(0) + b(1) * w(1) + b(2) * w(2) + b(3) * w(3)
        + b(4) * w(4) + b(5) * w(5) + b(6) * w(6) + b(7) * w(7)

\* C1: in ByteColumn order the physical index of logical index n is
\* blockStart + column + row*width with blockIndex = n div (width*8),
\* blockStart = blockIndex*(width*8), column = (n - blockStart) div 8 and
\* row = (n - blockStart) mod 8; the logical indices 8k .. 8k+7 are the pixels
\* of image column k mod width in image rows 8*(k div width) .. +7.
C1_ByteColumnMapping ==
    (pc = "scan" /\ font_mode = "ByteColumn" /\ width >= 1
        /\ calls >= 1 /\ req >= 0 /\ req < char_size) =>
        LET blockIndex == req \div (width * 8)
            blockStart == blockIndex * (width * 8)
            column == (req - blockStart) \div 8
            row == (req - blockStart) % 8
            k == req \div 8
        IN  /\ n_phys = blockStart + column + row * width
            /\ n_phys % width = k % width
            /\ n_phys \div width = 8 * (k \div width) + (req % 8)
            /\ n_phys \div width = 8 * blockIndex + row

\* C1 witness: logical index 29 of a 2-wide image, in the second block of 8
\* rows: column 1, row 13
C1_Witness ==
    /\ pc = "scan" /\ font_mode = "ByteColumn"
    /\ width = 2 /\ req = 29 /\ n_phys = 27

\* C2: for every byte j the sink accepted and every k in 0..7 the (8j+k)-th
\* consumed boolean is bit 7-k of the byte under Mtl and bit k under Ltm, so
\* the byte holds its own group of 8 and nothing else; 1,0,1,0,1,0,1,0 packs
\* to 170 (0b10101010) under Mtl and 85 (0b01010101) under Ltm.
C2_BitPositions ==
    /\ \A j \in 1..Len(out) : \A k \in 0..7 :
          BitAt(out[j], IF bit_flow = "Mtl" THEN 7 - k ELSE k)
              = u8_from(bits[8 * (j - 1) + k + 1])
    /\ \A j \in 1..Len(out) : out[j] \in 0..255
    /\ (Len(out) >= 1 /\ SubSeq(bits, 1, 8)
            = <<TRUE, FALSE, TRUE, FALSE, TRUE, FALSE, TRUE, FALSE>>)
          => out[1] = IF bit_flow = "Mtl" THEN 170 ELSE 85

\* C2 witness: the alternating sequence packed under Ltm, two bytes flushed
C2_Witness ==
    /\ bit_flow = "Ltm" /\ Len(out) = 2
    /\ SubSeq(bits, 1, 8) = <<TRUE, FALSE, TRUE, FALSE, TRUE, FALSE, TRUE, FALSE>>
    /\ out[1] = 85

\* C3: with a sink that never fails a byte is written exactly at every 8th
\* consumed boolean: after N booleans floor(N/8) writes were made and as many
\* bytes are in the sink, the counter is 7 - N mod 8, the accumulator is 0
\* right after a flush, and a trailing partial group produces no byte.
C3_FlushEveryEighth ==
    sink.kind = "Vec" =>
        /\ writes = Len(bits) \div 8
        /\ Len(out) = Len(bits) \div 8
        /\ i = 7 - (Len(bits) % 8)
        /\ (Len(bits) % 8 = 0 => cur_byte = 0)
        /\ (pc = "done" /\ cs_tag \in SupportedTags) => result = Ok

\* C3 witness: 12 booleans consumed, exactly 1 byte written, run finished
C3_Witness ==
    /\ sink.kind = "Vec" /\ pc = "done" /\ result = Ok
    /\ Len(bits) = 12 /\ Len(out) = 1 /\ writes = 1

\* C4 as stated: without alpha channel, on iff alpha > 127 and some colour
\* channel < 128.
C4_Original ==
    (pc = "done" /\ ~suppports_alpha(color_space)) =>
        (is_on <=> (item.rgba.a > 127
                    /\ (item.rgba.r < 128 \/ item.rgba.g < 128 \/ item.rgba.b < 128)))

\* C4 amended: without alpha channel, on iff alpha > 127 and some colour
\* channel < 127; a pixel with r = g = b = 127 and a = 255 is off.
C4_Threshold ==
    (pc = "done" /\ ~suppports_alpha(color_space)) =>
        /\ is_on <=> (item.rgba.a > 127
                      /\ (item.rgba.r < 127 \/ item.rgba.g < 127 \/ item.rgba.b < 127))
        /\ (item.rgba = Rgba(127, 127, 127, 255) => ~is_on)

\* C4 witness: the mid-grey opaque pixel of an alpha-less space, thresholded off
C4_Witness ==
    /\ pc = "done" /\ ~suppports_alpha(color_space)
    /\ item.rgba = Rgba(127, 127, 127, 255) /\ ~is_on

\* C5: calc_char_size(Row, w, h) = w*h; calc_char_size(ByteColumn, w, h) = w*h
\* when h mod 8 = 0 and w*(h + (8 - h mod 8)), the height rounded up to the
\* next multiple of 8, otherwise.
C5_CharSize ==
    pc = "done" =>
        /\ font_mode = "Row" => char_size = width * height
        /\ (font_mode = "ByteColumn" /\ height % 8 = 0) => char_size = width * height
        /\ (font_mode = "ByteColumn" /\ height % 8 # 0) =>
              /\ char_size = width * (height + (8 - (height % 8)))
              /\ char_size = width * 8 * ((height + 7) \div 8)
        /\ char_size >= width * height

\* C5 witness: (ByteColumn, 10, 20) -> 240
C5_Witness ==
    /\ pc = "done" /\ font_mode = "ByteColumn"
    /\ width = 10 /\ height = 20 /\ char_size = 240

\* C6: in ByteColumn order with a height that is no multiple of 8, a logical
\* index whose physical index is >= width*height yields the transparent-black
\* pixel without a buffer read; the buffer is only read at physical indices
\* < width*height.
C6_PaddingNotRead ==
    pc = "scan" =>
        /\ (font_mode = "ByteColumn" /\ height % 8 # 0 /\ calls >= 1
               /\ n_phys # NoIndex /\ n_phys >= width * height) =>
              (item = Some(Rgba_ZERO) /\ read_at = NoIndex)
        /\ read_at # NoIndex => (read_at >= 0 /\ read_at < width * height)

\* C6 witness: a padding index of a 9-row image answered with the virtual pixel
C6_Witness ==
    /\ pc = "scan" /\ font_mode = "ByteColumn" /\ height = 9 /\ width = 2
    /\ calls >= 1 /\ n_phys >= width * height
    /\ item = Some(Rgba_ZERO) /\ read_at = NoIndex

\* C7 as stated: every colour the Scanner yields for an alpha-less colour
\* space has alpha 255, the padding indices included.
C7_Original ==
    (pc = "scan" /\ calls >= 1 /\ item.some /\ ~suppports_alpha(color_space)) =>
        item.rgba.a = 255

\* C7 amended: for an alpha-less colour space every colour the Scanner yields
\* for a real pixel (physical index < width*height) has alpha 255, in both
\* scan orders; for a ByteColumn padding index it yields the transparent-black
\* pixel, whose alpha is 0.
C7_AlphaOfRealPixels ==
    (pc = "scan" /\ calls >= 1 /\ item.some /\ ~suppports_alpha(color_space)) =>
        IF n_phys < width * height
        THEN item.rgba.a = 255
        ELSE font_mode = "ByteColumn" /\ item.rgba = Rgba_ZERO

\* C7 witness: a real pixel of a Bgr image read in ByteColumn order
C7_Witness ==
    /\ pc = "scan" /\ calls >= 1 /\ item.some /\ color_space = "Bgr"
    /\ font_mode = "ByteColumn" /\ n_phys < width * height /\ read_at = n_phys
    /\ item.rgba.a = 255

\* C8: a colour space outside the six supported tags makes
\* generate_monochromatic fail with UnsupportedColorspace carrying the tag,
\* before any pixel is scanned or packed and with nothing written.
C8_UnsupportedRejected ==
    /\ cs_tag \notin SupportedTags =>
          /\ pc \in {"start", "done"}
          /\ pc = "done" => result = Err("UnsupportedColorspace", cs_tag)
          /\ calls = 0 /\ idx = 0 /\ read_at = NoIndex
          /\ bits = <<>> /\ writes = 0 /\ out = <<>>
    /\ result.kind = "UnsupportedColorspace" => cs_tag \notin SupportedTags

\* C8 witness: a YCbCr image rejected
C8_Witness ==
    /\ pc = "done" /\ cs_tag = "YCbCr"
    /\ result = Err("UnsupportedColorspace", "YCbCr") /\ out = <<>>

\* C9: once the sink has reported a failure on its m-th write,
\* generate_monochromatic has returned OutputWriterError: exactly m writes
\* were attempted and 8m pixels consumed, none after the failure, and the
\* m-1 bytes written before are in the sink, in order.
C9_WriteErrorStops ==
    /\ (sink.kind = "Failing" /\ writes >= sink.p) =>
          /\ pc = "done"
          /\ result.kind = "OutputWriterError"
          /\ writes = sink.p
          /\ Len(bits) = 8 * sink.p /\ calls = 8 * sink.p /\ idx = 8 * sink.p
          /\ Len(out) = sink.p - 1
          /\ \A j \in 1..Len(out) : out[j] = GroupByte(bits, j, bit_flow)
    /\ result.kind = "OutputWriterError" => (sink.kind = "Failing" /\ writes = sink.p)

\* C9 witness: the second write failed, the first byte is still in the sink
C9_Witness ==
    /\ pc = "done" /\ result.kind = "OutputWriterError"
    /\ sink.kind = "Failing" /\ sink.p = 2 /\ writes = 2
    /\ Len(out) = 1 /\ out[1] = GroupByte(bits, 1, bit_flow) /\ out[1] # 0

\* C10: once RgbaColorIter::next has signalled end, every later call signals
\* end as well.
C10_EndIsFinal ==
    [][(pc = "scan" /\ calls >= 1 /\ ~item.some) => ~item'.some]_vars

\* the image and buffer the decoder hands over when nothing is missing
CompleteBuffer == Len(samples) = width * height * num_components(color_space)

\* C11: in ByteColumn order with a complete sample buffer the physical indices
\* of the elements produced are pairwise distinct, every logical index below
\* CharSize produces one, and once all CharSize indices are consumed every
\* physical index in [0, width*height) was produced exactly once and exactly
\* CharSize - width*height elements, those in rows >= height, were padding.
C11_MappingBijective ==
    (pc = "scan" /\ font_mode = "ByteColumn" /\ CompleteBuffer) =>
        /\ Len(visited) = idx
        /\ \A a, b \in 1..Len(visited) : visited[a] = visited[b] => a = b
        /\ \A a \in 1..Len(visited) :
              /\ visited[a] = PhysIndex(font_mode, a - 1, width)
              /\ visited[a] >= 0 /\ visited[a] < char_size
              /\ visited[a] >= width * height <=> visited[a] \div width >= height
        /\ idx = char_size =>
              /\ \A p \in 0..(width * height - 1) :
                    Cardinality({a \in 1..Len(visited) : visited[a] = p}) = 1
              /\ Cardinality({a \in 1..Len(visited) : visited[a] >= width * height})
                    = char_size - width * height

\* C11 witness: a 3x9 image fully scanned, 48 elements of which 21 are padding
C11_Witness ==
    /\ pc = "scan" /\ font_mode = "ByteColumn" /\ CompleteBuffer
    /\ width = 3 /\ height = 9 /\ idx = char_size /\ Len(visited) = 48
    /\ Cardinality({a \in 1..Len(visited) : visited[a] >= 27}) = 21
    /\ ~item.some

\* C12: whenever generate_monochromatic returns success after consuming N
\* booleans the sink holds exactly floor(N/8) bytes, one per flush and in
\* flush order, whatever the sink.
C12_NoByteLost ==
    (pc = "done" /\ result = Ok) =>
        /\ Len(out) = Len(bits) \div 8
        /\ Len(out) = writes
        /\ \A j \in 1..Len(out) : out[j] = GroupByte(bits, j, bit_flow)

====
